---- MODULE Spec2Model ----
(***************************************************************************)
(* Model of the school-payment dashboard client: the transaction list      *)
(* views (Dashboard, Transactions, the two SchoolTransactions variants),   *)
(* their URL codec (updateURLParams / the useState initialisers), the list *)
(* fetches they issue and the shared HTTP client's 401 interceptor.        *)
(*                                                                         *)
(* A JavaScript string is a sequence of symbols: a word without a comma    *)
(* is one symbol, "," is the comma, "0".."9" and "-" are the characters of *)
(* a printed number. The empty string is << >>.                            *)
(***************************************************************************)
EXTENDS Integers, Sequences, FiniteSets

\* ------------------------------------------------------------------ bounds

\* Largest totalPages the server reports.
MaxPages == 2
\* Most list fetches in flight at once.
MaxInflight == 2
\* Most user actions in one run of a view.
MaxActions == 2
\* Most requests of the shared client awaiting their response at once.
MaxPending == 2

\* --------------------------------------------------------- JavaScript values

\* The empty string ''.
Empty == << >>
\* The one-word string w.
Str(w) == << w >>
Comma == ","
\* Number.NaN, the result of parseInt on a string with no leading digits.
NaN == 0 - 1000000

IsNaN(n) == n = NaN

Digits == << "0", "1", "2", "3", "4", "5", "6", "7", "8", "9" >>

IsDigit(c) == \E d \in 1..10 : Digits[d] = c

DigitValue(c) == (CHOOSE d \in 1..10 : Digits[d] = c) - 1

RECURSIVE DigitsOf(_)
DigitsOf(n) ==
  IF n < 10 THEN << Digits[n + 1] >>
  ELSE DigitsOf(n \div 10) \o << Digits[(n % 10) + 1] >>

\* Number.prototype.toString
NumberToString(n) ==
  IF IsNaN(n) THEN Str("NaN")
  ELSE IF n < 0 THEN << "-" >> \o DigitsOf(0 - n)
  ELSE DigitsOf(n)

RECURSIVE ParseDigits(_, _, _)
\* The value of the longest prefix of digits of s, acc being the value read so
\* far and any telling whether a digit was read; NaN when there is none.
ParseDigits(s, acc, any) ==
  IF s # << >> /\ IsDigit(Head(s))
  THEN ParseDigits(Tail(s), acc * 10 + DigitValue(Head(s)), TRUE)
  ELSE IF any THEN acc ELSE NaN

\* parseInt(s): an optional sign, then the longest prefix of digits.
ParseInt(s) ==
  IF s # << >> /\ Head(s) = "-"
  THEN LET v == ParseDigits(Tail(s), 0, FALSE) IN IF IsNaN(v) THEN NaN ELSE 0 - v
  ELSE ParseDigits(s, 0, FALSE)

RECURSIVE Join(_)
\* Array.prototype.join(',')
Join(list) ==
  IF list = << >> THEN Empty
  ELSE IF Len(list) = 1 THEN list[1]
  ELSE list[1] \o << Comma >> \o Join(Tail(list))

RECURSIVE SplitFrom(_, _)
\* String.prototype.split(','), cur being the piece read so far.
SplitFrom(s, cur) ==
  IF s = << >> THEN << cur >>
  ELSE IF Head(s) = Comma THEN << cur >> \o SplitFrom(Tail(s), << >>)
  ELSE SplitFrom(Tail(s), Append(cur, Head(s)))

Split(s) == SplitFrom(s, << >>)

\* a > b on numbers: false when either is NaN.
Gt(a, b) == ~IsNaN(a) /\ ~IsNaN(b) /\ a > b

\* a + d on numbers.
Plus(a, d) == IF IsNaN(a) THEN NaN ELSE a + d

\* undefined, where an object is expected.
Undefined == << >>
\* The truthiness test of an optional object (`if (sort)`, `filters?.`,
\* `response.pagination ||`).
Given(arg) == DOMAIN arg # {}

\* -------------------------------------------------------- URLSearchParams

\* new URLSearchParams(): a function from the keys present to their values.
NoParams == [k \in {} |-> Empty]

\* searchParams.get(key) || dflt
GetOr(params, key, dflt) ==
  IF key \in DOMAIN params /\ params[key] # Empty THEN params[key] ELSE dflt

\* searchParams.get(key)?.split(',') || []
GetList(params, key) ==
  IF key \in DOMAIN params THEN Split(params[key]) ELSE << >>

\* if (cond) params.set(key, value)
SetIf(params, cond, key, value) ==
  IF cond
  THEN [k \in (DOMAIN params) \cup {key} |-> IF k = key THEN value ELSE params[k]]
  ELSE params

\* ------------------------------------------------------------- the views

DashboardView == "Dashboard"
TransactionsView == "Transactions"
\* The SchoolTransactions page without URL synchronisation.
SchoolViewPlain == "SchoolTransactionsPlain"
\* The SchoolTransactions page that reads and writes the URL.
SchoolViewURL == "SchoolTransactions"

Views == {DashboardView, TransactionsView, SchoolViewPlain, SchoolViewURL}
\* The views that call useSearchParams.
URLViews == {DashboardView, SchoolViewURL}
\* The views that list by school (getTransactionsBySchool).
ScopedViews == {SchoolViewPlain, SchoolViewURL}

VARIABLES
  view,             \* which page component is mounted
  searchParams,     \* the address bar's query parameters
  transactions,     \* the rows shown: the request that produced them, their count
  loading,
  error,            \* Dashboard's error text (Empty for null)
  pagination,
  filters,
  sort,
  rowsPerPage,
  selectedSchoolId,
  selectedStatus,
  selectedFilter,
  selectedDate,
  inflight,         \* the list fetches awaiting their response, in issue order
  lastOp,           \* the handler or completion that ran last
  nActions,         \* user actions so far
  phase,            \* which part runs: "live" a page, "api" the client, "handler"
                    \* StatusCheck's handler, "query" the service's URL building,
                    \* "answer" a response's handling, "typed"/"opened" a typed
                    \* URL's decoding, else the codec's step
  saved,            \* the Query State that Encode wrote to the URL
  localStorage,     \* the 'token' and 'user' items (Empty when absent)
  location,         \* window.location.href, as a path
  requests,         \* the shared client's requests awaiting their response
  rejected,         \* 401 responses handled since the last login, up to two
  orderId,          \* StatusCheck's input text
  transaction,      \* StatusCheck's displayed record
  lookups,          \* the status lookups awaiting their response
  toasts,           \* the notifications the last step raised
  requestUrl        \* the path and query string a service function built

vars == << view, searchParams, transactions, loading, error, pagination, filters,
           sort, rowsPerPage, selectedSchoolId, selectedStatus, selectedFilter,
           selectedDate, inflight, lastOp, nActions, phase, saved,
           localStorage, location, requests, rejected,
           orderId, transaction, lookups, toasts, requestUrl >>

\* The state of the shared HTTP client and of what its interceptors touch.
apiVars == << localStorage, location, requests, rejected >>

\* The state of the mounted list view.
viewVars == << view, searchParams, transactions, loading, error, pagination, filters,
               sort, rowsPerPage, selectedSchoolId, selectedStatus, selectedFilter,
               selectedDate, inflight, lastOp, nActions, phase, saved,
               orderId, transaction, lookups, toasts, requestUrl >>

\* The state of the StatusCheck page besides loading and error.
lookupVars == << orderId, transaction, lookups >>

DefaultPageSize == 10

DefaultPagination ==
  [currentPage |-> 1, totalPages |-> 1, totalCount |-> 0,
   hasNextPage |-> FALSE, hasPrevPage |-> FALSE]

NoFilters ==
  [status |-> << >>, schoolIds |-> << >>, search |-> Empty,
   dateFrom |-> Empty, dateTo |-> Empty]

DefaultSort == [field |-> Str("payment_time"), direction |-> Str("desc")]

\* localStorage without 'token' and 'user'.
NoSession == [token |-> Empty, user |-> Empty]

\* localStorage after a login: the JWT and the serialised user.
Sessions ==
  {[token |-> Str("jwt-1"), user |-> Str("admin")],
   [token |-> Str("jwt-2"), user |-> Str("clerk")]}

LoginPath == "/login"
DashboardPath == "/dashboard"

\* useState<any>(null): no record displayed. A record is kept as its order id
\* and status.
NoTransaction == [present |-> FALSE, custom_order_id |-> Empty, status |-> Empty]

\* No service function has built a request.
NoUrl == [path |-> Empty, query |-> << >>]

\* The StatusCheck page is not mounted and no request URL is under study.
NoLookup ==
  /\ orderId = Empty
  /\ transaction = NoTransaction
  /\ lookups = << >>
  /\ toasts = << >>
  /\ requestUrl = NoUrl

\* A signed-in browser on a list page, no request of the client modelled.
SignedIn ==
  /\ localStorage = [token |-> Str("jwt-1"), user |-> Str("admin")]
  /\ location = DashboardPath
  /\ requests = << >>
  /\ rejected = 0

\* The arguments of one call of getAllTransactions / getTransactionsBySchool
\* (here those of a call on the default state).
NoRequest ==
  [schoolId |-> Empty, page |-> 1, limit |-> DefaultPageSize,
   sort |-> DefaultSort, filters |-> NoFilters]

\* useState<Transaction[]>([]): nothing fetched yet. The rows shown are kept as
\* their count, the request that produced them, whether that request had
\* been overtaken by a later one's answer when its own arrived, and the
\* pagination metadata its response body carried.
NoTransactions ==
  [shown |-> FALSE, rows |-> 0, query |-> NoRequest, overtaken |-> FALSE,
   metadata |-> Undefined]

\* The component's state as one record.
Cur ==
  [searchParams |-> searchParams, transactions |-> transactions,
   loading |-> loading, error |-> error, pagination |-> pagination,
   filters |-> filters, sort |-> sort, rowsPerPage |-> rowsPerPage,
   selectedSchoolId |-> selectedSchoolId, selectedStatus |-> selectedStatus,
   selectedFilter |-> selectedFilter, selectedDate |-> selectedDate]

\* The component's next state is s.
Becomes(s) ==
  /\ searchParams' = s.searchParams
  /\ transactions' = s.transactions
  /\ loading' = s.loading
  /\ error' = s.error
  /\ pagination' = s.pagination
  /\ filters' = s.filters
  /\ sort' = s.sort
  /\ rowsPerPage' = s.rowsPerPage
  /\ selectedSchoolId' = s.selectedSchoolId
  /\ selectedStatus' = s.selectedStatus
  /\ selectedFilter' = s.selectedFilter
  /\ selectedDate' = s.selectedDate

\* ------------------------------------------------------------ the URL codec

\* updateURLParamsDashboard changed to leave the default sort out of the URL.
updateURLParamsDashboard_OmitsDefaultSort(newFilters, newSort, newPagination, rows) ==
  LET p1 == SetIf(NoParams, newFilters.search # Empty, "search", newFilters.search)
      p2 == SetIf(p1, Len(newFilters.status) > 0, "status", Join(newFilters.status))
      p3 == SetIf(p2, Len(newFilters.schoolIds) > 0, "schoolIds", Join(newFilters.schoolIds))
      p4 == SetIf(p3, newFilters.dateFrom # Empty, "dateFrom", newFilters.dateFrom)
      p5 == SetIf(p4, newFilters.dateTo # Empty, "dateTo", newFilters.dateTo)
      p6 == SetIf(p5, newSort.field # DefaultSort.field, "sortField", newSort.field)
      p7 == SetIf(p6, newSort.direction # DefaultSort.direction, "sortDirection",
                  newSort.direction)
      p8 == SetIf(p7, Gt(newPagination.currentPage, 1), "page",
                  NumberToString(newPagination.currentPage))
  IN  SetIf(p8, rows # DefaultPageSize, "limit", NumberToString(rows))

\* Dashboard's updateURLParams; rows is the rowsPerPage of the render it closes over.
updateURLParamsDashboard(newFilters, newSort, newPagination, rows) ==
  LET p1 == SetIf(NoParams, newFilters.search # Empty, "search", newFilters.search)
      p2 == SetIf(p1, Len(newFilters.status) > 0, "status", Join(newFilters.status))
      p3 == SetIf(p2, Len(newFilters.schoolIds) > 0, "schoolIds", Join(newFilters.schoolIds))
      p4 == SetIf(p3, newFilters.dateFrom # Empty, "dateFrom", newFilters.dateFrom)
      p5 == SetIf(p4, newFilters.dateTo # Empty, "dateTo", newFilters.dateTo)
      p6 == SetIf(p5, newSort.field # Empty, "sortField", newSort.field)
      p7 == SetIf(p6, newSort.direction # Empty, "sortDirection", newSort.direction)
      p8 == SetIf(p7, Gt(newPagination.currentPage, 1), "page",
                  NumberToString(newPagination.currentPage))
  IN  SetIf(p8, rows # DefaultPageSize, "limit", NumberToString(rows))

\* SchoolTransactions' updateURLParams; c holds the state of the render it
\* closes over (selectedSchoolId, rowsPerPage, selectedFilter, selectedDate,
\* selectedStatus).
updateURLParamsSchool(newFilters, newSort, newPagination, c) ==
  LET p0 == SetIf(NoParams, c.selectedSchoolId # Empty, "schoolId", c.selectedSchoolId)
      p1 == SetIf(p0, newFilters.search # Empty, "search", newFilters.search)
      p2 == SetIf(p1, Len(newFilters.status) > 0, "status", Join(newFilters.status))
      p4 == SetIf(p2, newFilters.dateFrom # Empty, "dateFrom", newFilters.dateFrom)
      p5 == SetIf(p4, newFilters.dateTo # Empty, "dateTo", newFilters.dateTo)
      p6 == SetIf(p5, newSort.field # Empty, "sortField", newSort.field)
      p7 == SetIf(p6, newSort.direction # Empty, "sortDirection", newSort.direction)
      p8 == SetIf(p7, Gt(newPagination.currentPage, 1), "page",
                  NumberToString(newPagination.currentPage))
      p9 == SetIf(p8, c.rowsPerPage # DefaultPageSize, "limit", NumberToString(c.rowsPerPage))
      p10 == SetIf(p9, c.selectedFilter # Empty, "filterBy", c.selectedFilter)
      p11 == SetIf(p10, c.selectedDate # Empty, "dateFilter", c.selectedDate)
  IN  SetIf(p11, c.selectedStatus # Empty, "statusFilter", c.selectedStatus)

\* updateURLParams of view v called in a render whose state is c; the views
\* without useSearchParams leave the address bar alone.
updateURLParams(v, params, newFilters, newSort, newPagination, c) ==
  IF v = DashboardView
  THEN updateURLParamsDashboard(newFilters, newSort, newPagination, c.rowsPerPage)
  ELSE IF v = SchoolViewURL
  THEN updateURLParamsSchool(newFilters, newSort, newPagination, c)
  ELSE params

\* Dashboard's state after its useState initialisers ran on params.
DashboardMount(params) ==
  [searchParams |-> params,
   transactions |-> NoTransactions,
   loading |-> TRUE,
   error |-> Empty,
   pagination |-> [DefaultPagination EXCEPT
                     !.currentPage = ParseInt(GetOr(params, "page", Str("1")))],
   filters |-> [status |-> GetList(params, "status"),
                schoolIds |-> GetList(params, "schoolIds"),
                search |-> GetOr(params, "search", Empty),
                dateFrom |-> GetOr(params, "dateFrom", Empty),
                dateTo |-> GetOr(params, "dateTo", Empty)],
   sort |-> [field |-> GetOr(params, "sortField", Str("payment_time")),
             direction |-> GetOr(params, "sortDirection", Str("desc"))],
   rowsPerPage |-> ParseInt(GetOr(params, "limit", << "1", "0" >>)),
   selectedSchoolId |-> Empty,
   selectedStatus |-> GetOr(params, "status", Empty),
   selectedFilter |-> Empty,
   selectedDate |-> Empty]

\* The URL-synchronised SchoolTransactions' state after its initialisers ran.
SchoolMount(params) ==
  [searchParams |-> params,
   transactions |-> NoTransactions,
   loading |-> TRUE,
   error |-> Empty,
   pagination |-> DefaultPagination,
   filters |-> [status |-> GetList(params, "status"),
                schoolIds |-> << >>,
                search |-> GetOr(params, "search", Empty),
                dateFrom |-> GetOr(params, "dateFrom", Empty),
                dateTo |-> GetOr(params, "dateTo", Empty)],
   sort |-> [field |-> GetOr(params, "sortField", Str("payment_time")),
             direction |-> GetOr(params, "sortDirection", Str("desc"))],
   rowsPerPage |-> ParseInt(GetOr(params, "limit", << "1", "0" >>)),
   selectedSchoolId |-> GetOr(params, "schoolId", Empty),
   selectedStatus |-> GetOr(params, "statusFilter", Empty),
   selectedFilter |-> GetOr(params, "filterBy", Empty),
   selectedDate |-> GetOr(params, "dateFilter", Empty)]

\* Transactions and the plain SchoolTransactions start from constants.
PlainMount(params) ==
  [searchParams |-> params,
   transactions |-> NoTransactions,
   loading |-> TRUE,
   error |-> Empty,
   pagination |-> DefaultPagination,
   filters |-> NoFilters,
   sort |-> DefaultSort,
   rowsPerPage |-> DefaultPageSize,
   selectedSchoolId |-> Empty,
   selectedStatus |-> Empty,
   selectedFilter |-> Empty,
   selectedDate |-> Empty]

\* The state of view v right after its useState initialisers.
Mount(v, params) ==
  IF v = DashboardView THEN DashboardMount(params)
  ELSE IF v = SchoolViewURL THEN SchoolMount(params)
  ELSE PlainMount(params)

\* The Query State of section 3 held by state s of view v: pagination, sort,
\* filters, and the school a scoped view lists.
QueryState(v, s) ==
  [currentPage |-> s.pagination.currentPage,
   pageSize |-> s.rowsPerPage,
   sort |-> s.sort,
   filters |-> s.filters,
   schoolId |-> IF v \in ScopedViews THEN s.selectedSchoolId ELSE Empty]

\* ---------------------------------------------------------- input domains

\* Columns with a SortButton, and the default sort column.
SortFields == {Str("payment_time"), Str("status")}
\* The fields of the SortButtons view v renders (Dashboard has none for payment_time).
SortButtons(v) ==
  IF v = DashboardView THEN {Str("status")} ELSE SortFields
Directions == {Str("asc"), Str("desc")}
\* statusOptions of Transactions and the plain SchoolTransactions.
StatusValues == {Str("success"), Str("pending")}
\* The <option> values of the status dropdown of Dashboard and SchoolTransactions.
StatusOptions == {Empty, Str("Success")}
\* The school ids offered by the views.
SchoolIds == {Str("65b0e6293e9f76a9694d84b4")}
SearchTexts == {Empty, Str("abc")}
DateValues == {Empty, Str("2024-01-01")}
\* The rows-per-page <option> values.
RowsOptions == {10, 25}
FilterByOptions == {Empty, Str("amount")}
DateFilterOptions == {Empty, Str("today")}

\* The lists of at most two distinct elements of S.
ListsOver(S) ==
  {<< >>} \cup {<< a >> : a \in S}
          \cup {<< p[1], p[2] >> : p \in {q \in S \X S : q[1] # q[2]}}

\* The Query States inside the declared domains of section 3, as states of view v.
DomainStates(v) ==
  { [PlainMount(NoParams) EXCEPT
       !.loading = FALSE,
       !.pagination = [DefaultPagination EXCEPT !.currentPage = pg,
                                                !.totalPages = MaxPages],
       !.rowsPerPage = rows,
       !.sort = [field |-> fld, direction |-> dir],
       !.filters = [status |-> st, schoolIds |-> ids, search |-> txt,
                    dateFrom |-> df, dateTo |-> dt],
       !.selectedSchoolId = sch,
       !.selectedStatus = sel[1],
       !.selectedFilter = sel[2],
       !.selectedDate = sel[3]] :
      pg \in 1..MaxPages, rows \in RowsOptions, fld \in SortFields,
      dir \in Directions, st \in ListsOver(StatusValues),
      ids \in IF v = DashboardView THEN ListsOver({Str("65b0e6293e9f76a9694d84b4")})
              ELSE {<< >>},
      txt \in SearchTexts, df \in DateValues, dt \in DateValues,
      sch \in IF v = SchoolViewURL THEN {Empty, Str("65b0e6293e9f76a9694d84b4")}
              ELSE {Empty},
      sel \in IF v = SchoolViewURL
              THEN {Empty, Str("Success")} \X FilterByOptions \X DateFilterOptions
              ELSE {<< Empty, Empty, Empty >>} }

\* ------------------------------------------------ the codec on its own

\* A URL view holding any Query State of the declared domains.
InitCodec ==
  /\ view \in URLViews
  /\ \E s \in DomainStates(view) : 
       /\ searchParams = s.searchParams
       /\ transactions = s.transactions
       /\ loading = s.loading
       /\ error = s.error
       /\ pagination = s.pagination
       /\ filters = s.filters
       /\ sort = s.sort
       /\ rowsPerPage = s.rowsPerPage
       /\ selectedSchoolId = s.selectedSchoolId
       /\ selectedStatus = s.selectedStatus
       /\ selectedFilter = s.selectedFilter
       /\ selectedDate = s.selectedDate
  /\ inflight = << >>
  /\ lastOp = "none"
  /\ nActions = 0
  /\ phase = "state"
  /\ saved = QueryState(view, PlainMount(NoParams))
  /\ SignedIn
  /\ NoLookup

\* updateURLParams(filters, sort, pagination) on the state held.
Encode ==
  /\ phase = "state"
  /\ phase' = "encoded"
  /\ saved' = QueryState(view, Cur)
  /\ searchParams' = updateURLParams(view, searchParams, filters, sort, pagination, Cur)
  /\ UNCHANGED << view, transactions, loading, error, pagination, filters, sort,
                  rowsPerPage, selectedSchoolId, selectedStatus, selectedFilter,
                  selectedDate, inflight, lastOp, nActions >>
  /\ UNCHANGED << apiVars, lookupVars, toasts, requestUrl >>

\* The page is opened afresh on the URL written: the useState initialisers run.
Decode ==
  /\ phase = "encoded"
  /\ phase' = "decoded"
  /\ Becomes(Mount(view, searchParams))
  /\ UNCHANGED << view, inflight, lastOp, nActions, saved >>
  /\ UNCHANGED << apiVars, lookupVars, toasts, requestUrl >>

NextCodec == Encode \/ Decode

SpecCodec == InitCodec /\ [][NextCodec]_vars

\* C1 (as claimed): decoding what updateURLParams wrote gives back the Query
\* State that was encoded, in Dashboard and in the URL-synchronised
\* SchoolTransactions, currentPage and the selected school included.
C1_RoundTrip == phase = "decoded" => QueryState(view, Cur) = saved

\* The same law for Dashboard alone.
C1_RoundTripDashboard ==
  (phase = "decoded" /\ view = DashboardView) => QueryState(view, Cur) = saved

\* The same law for SchoolTransactions with currentPage left out.
C1_RoundTripSchoolButPage ==
  (phase = "decoded" /\ view = SchoolViewURL) =>
     [QueryState(view, Cur) EXCEPT !.currentPage = 1] = [saved EXCEPT !.currentPage = 1]

\* The default Query State: page 1, page size 10, payment_time descending,
\* no filter, no school.
DefaultQueryState == QueryState(view, PlainMount(NoParams))

\* The view-level selections of SchoolTransactions that reach the URL are unset.
NoSelections == selectedStatus = Empty /\ selectedFilter = Empty /\ selectedDate = Empty

\* C2 (as claimed): updateURLParams on the default Query State writes no
\* parameter at all.
C2_DefaultEncodesEmpty ==
  (phase = "encoded" /\ saved = DefaultQueryState /\ NoSelections) =>
     DOMAIN searchParams = {}

\* The parameters updateURLParams writes for the state held.
WrittenKeys ==
  {"sortField", "sortDirection"}
    \cup (IF saved.filters.search # Empty THEN {"search"} ELSE {})
    \cup (IF saved.filters.status # << >> THEN {"status"} ELSE {})
    \cup (IF view = DashboardView /\ saved.filters.schoolIds # << >>
          THEN {"schoolIds"} ELSE {})
    \cup (IF saved.filters.dateFrom # Empty THEN {"dateFrom"} ELSE {})
    \cup (IF saved.filters.dateTo # Empty THEN {"dateTo"} ELSE {})
    \cup (IF saved.currentPage > 1 THEN {"page"} ELSE {})
    \cup (IF saved.pageSize # DefaultPageSize THEN {"limit"} ELSE {})
    \cup (IF saved.schoolId # Empty THEN {"schoolId"} ELSE {})
    \cup (IF view = SchoolViewURL /\ selectedFilter # Empty THEN {"filterBy"} ELSE {})
    \cup (IF view = SchoolViewURL /\ selectedDate # Empty THEN {"dateFilter"} ELSE {})
    \cup (IF view = SchoolViewURL /\ selectedStatus # Empty THEN {"statusFilter"} ELSE {})

\* C2 (amended): updateURLParams always writes sortField and sortDirection, the
\* default payment_time and desc included, so the default Query State encodes
\* to exactly those two; every other parameter is written only when its field
\* differs from its default (non-empty filter, page above 1, page size other
\* than 10, a school or view-level selection made).
C2_ParametersWritten ==
  phase = "encoded" =>
    /\ DOMAIN searchParams = WrittenKeys
    /\ searchParams["sortField"] = saved.sort.field
    /\ searchParams["sortDirection"] = saved.sort.direction

\* The default Query State has been encoded: the URL holds the default sort.
C2_DefaultEncoded ==
  /\ phase = "encoded"
  /\ saved = DefaultQueryState
  /\ NoSelections
  /\ view = DashboardView
  /\ DOMAIN searchParams = {"sortField", "sortDirection"}
  /\ searchParams["sortField"] = Str("payment_time")
  /\ searchParams["sortDirection"] = Str("desc")

\* ------------------------------------------------------------ list fetches

\* The arguments loadTransactions passes to the service in state s of view v:
\* the limit is the literal 10 in Transactions and the plain SchoolTransactions.
Request(v, s) ==
  [schoolId |-> IF v \in ScopedViews THEN s.selectedSchoolId ELSE Empty,
   page |-> s.pagination.currentPage,
   limit |-> IF v \in URLViews THEN s.rowsPerPage ELSE DefaultPageSize,
   sort |-> s.sort,
   filters |-> s.filters]

\* One call of loadTransactions awaiting its response: the request, the state
\* of the render it closes over that updateURLParams reads on success, and
\* whether a fetch issued after it has already been answered.
NewFetch(v, s) ==
  [req |-> Request(v, s),
   closure |-> [selectedSchoolId |-> s.selectedSchoolId,
                rowsPerPage |-> s.rowsPerPage,
                selectedFilter |-> s.selectedFilter,
                selectedDate |-> s.selectedDate,
                selectedStatus |-> s.selectedStatus],
   overtaken |-> FALSE]

\* The page a well-behaved server answers for a requested page when it holds
\* total pages: out-of-range requests are clamped.
ServerPage(page, total) ==
  IF IsNaN(page) \/ page < 1 THEN 1
  ELSE IF page > total THEN total
  ELSE page

\* The bodies the server may answer a request with: the rows of the page and
\* pagination metadata consistent with them.
Responses(req) ==
  { [rows |-> r[2],
     pagination |-> [currentPage |-> ServerPage(req.page, r[1]),
                     totalPages |-> r[1],
                     totalCount |-> IF r[2] = 0 THEN 0 ELSE r[1],
                     hasNextPage |-> ServerPage(req.page, r[1]) < r[1],
                     hasPrevPage |-> ServerPage(req.page, r[1]) > 1]] :
      r \in {q \in (1..MaxPages) \X {0, 1} : q[2] = 1 \/ q[1] = 1} }

FailedToLoad == Str("Failed to load transactions")

\* Dashboard computes rowsPerPage from the URL in every render.
Rerender(v, s) ==
  IF v = DashboardView
  THEN [s EXCEPT !.rowsPerPage = ParseInt(GetOr(s.searchParams, "limit", << "1", "0" >>))]
  ELSE s

\* DepsChanged changed to an effect that does not list pagination.currentPage.
DepsChanged_WithoutPage(v, old, s, identity) ==
  \/ identity
  \/ v \in URLViews /\ s.rowsPerPage # old.rowsPerPage
  \/ v \in ScopedViews /\ s.selectedSchoolId # old.selectedSchoolId

\* Whether the dependency list of the fetching useEffect differs between the
\* renders of old and s; identity tells that setFilters or setSort was called
\* (a fresh object never equals the previous one).
DepsChanged(v, old, s, identity) ==
  \/ identity
  \/ s.pagination.currentPage # old.pagination.currentPage
  \/ v \in URLViews /\ s.rowsPerPage # old.rowsPerPage
  \/ v \in ScopedViews /\ s.selectedSchoolId # old.selectedSchoolId

\* EffectLoads changed to call the service whatever the selection.
EffectLoads_Always(v, s) == TRUE

\* Whether the effect of view v calls loadTransactions in state s and the call
\* gets past its early return.
EffectLoads(v, s) == v \in ScopedViews => s.selectedSchoolId # Empty

\* loadTransactions up to its await: setLoading(true), and setError(null) in
\* Dashboard.
Started(v, s) ==
  [s EXCEPT !.loading = TRUE,
            !.error = IF v = DashboardView THEN Empty ELSE @]

\* The render after state changes turned old into s, followed by the fetching
\* effect: the component's next state and the fetches then in flight.
Commit(old, s0, identity, pending) ==
  LET s == Rerender(view, s0)
      fires == DepsChanged(view, old, s, identity) /\ EffectLoads(view, s)
  IN  /\ fires => Len(pending) < MaxInflight
      /\ Becomes(IF fires THEN Started(view, s) ELSE s)
      /\ inflight' = IF fires THEN Append(pending, NewFetch(view, s)) ELSE pending

\* A user action named op turns the state into s.
UserAction(op, s, identity) ==
  /\ phase = "live"
  /\ view \in Views
  /\ nActions < MaxActions
  /\ Commit(Cur, s, identity, inflight)
  /\ lastOp' = op
  /\ nActions' = nActions + 1
  /\ toasts' = << >>
  /\ UNCHANGED << view, phase, saved >>
  /\ UNCHANGED << apiVars, lookupVars, requestUrl >>

\* The controls below the school selector are rendered.
ControlsShown == view \in ScopedViews => selectedSchoolId # Empty

PageOne == [pagination EXCEPT !.currentPage = 1]

\* ------------------------------------------------------- the user's actions

\* handleSearch of every view: the search box's onChange.
handleSearch(text) ==
  /\ ControlsShown
  /\ text # filters.search
  /\ LET newFilters == [filters EXCEPT !.search = text]
     IN  UserAction("handleSearch",
                    [Cur EXCEPT !.filters = newFilters,
                                !.pagination = PageOne,
                                !.searchParams = updateURLParams(view, searchParams,
                                                   newFilters, sort, PageOne, Cur)],
                    TRUE)

\* NextSort changed to flip the direction whatever the field clicked.
NextSort_FlipsAnyField(old, field) ==
  [field |-> field,
   direction |-> IF old.direction = Str("asc") THEN Str("desc") ELSE Str("asc")]

\* The sort handleSort(field) sets.
NextSort(old, field) ==
  [field |-> field,
   direction |-> IF old.field = field /\ old.direction = Str("asc")
                 THEN Str("desc") ELSE Str("asc")]

\* handleSort of every view; the SortButtons are in the table's header, which
\* is rendered only when not loading and there are rows.
handleSort(field) ==
  /\ ControlsShown
  /\ ~loading
  /\ transactions.rows > 0
  /\ LET newSort == NextSort(sort, field)
     IN  UserAction("handleSort",
                    [Cur EXCEPT !.sort = newSort,
                                !.searchParams = updateURLParams(view, searchParams,
                                                   filters, newSort, pagination, Cur)],
                    TRUE)

\* Dashboard's handleStatusFilterChange: the status dropdown's onChange.
handleStatusFilterChangeDashboard(statusFilter) ==
  /\ view = DashboardView
  /\ statusFilter # selectedStatus
  /\ LET newFilters == [filters EXCEPT
                          !.status = IF statusFilter # Empty THEN << statusFilter >>
                                     ELSE << >>]
     IN  UserAction("handleStatusFilterChange",
                    [Cur EXCEPT !.selectedStatus = statusFilter,
                                !.filters = newFilters,
                                !.pagination = PageOne,
                                !.searchParams = updateURLParams(view, searchParams,
                                                   newFilters, sort, PageOne, Cur)],
                    TRUE)

\* SchoolTransactions' handleStatusFilterChange (URL-synchronised variant).
handleStatusFilterChangeSchool(statusFilter) ==
  /\ view = SchoolViewURL
  /\ ControlsShown
  /\ statusFilter # selectedStatus
  /\ LET newFilters == [filters EXCEPT !.status = << statusFilter >>]
     IN  UserAction("handleStatusFilterChange",
                    IF statusFilter # Empty
                    THEN [Cur EXCEPT !.selectedStatus = statusFilter,
                                     !.filters = newFilters,
                                     !.searchParams = updateURLParams(view, searchParams,
                                                        newFilters, sort, pagination, Cur)]
                    ELSE [Cur EXCEPT !.selectedStatus = statusFilter],
                    statusFilter # Empty)

\* Dashboard's date input onChange.
handleDateFromChange(date) ==
  /\ view = DashboardView
  /\ date # filters.dateFrom
  /\ LET newFilters == [filters EXCEPT !.dateFrom = date]
     IN  UserAction("handleDateFromChange",
                    [Cur EXCEPT !.filters = newFilters,
                                !.pagination = PageOne,
                                !.searchParams = updateURLParams(view, searchParams,
                                                   newFilters, sort, PageOne, Cur)],
                    TRUE)

\* list with x removed when it is in it, appended otherwise.
Toggle(list, x) ==
  IF \E i \in 1..Len(list) : list[i] = x
  THEN LET keep(y) == y # x IN SelectSeq(list, keep)
  ELSE Append(list, x)

\* handleStatusFilter of Transactions and the plain SchoolTransactions.
handleStatusFilter(status) ==
  /\ view \in {TransactionsView, SchoolViewPlain}
  /\ ControlsShown
  /\ UserAction("handleStatusFilter",
                [Cur EXCEPT !.filters = [filters EXCEPT !.status = Toggle(@, status)],
                            !.pagination = PageOne],
                TRUE)

\* handleSchoolFilter of Transactions.
handleSchoolFilter(schoolId) ==
  /\ view = TransactionsView
  /\ UserAction("handleSchoolFilter",
                [Cur EXCEPT !.filters = [filters EXCEPT !.schoolIds = Toggle(@, schoolId)],
                            !.pagination = PageOne],
                TRUE)

\* Cleared changed to put the default sort back as well.
Cleared_ResetsSort(s) ==
  [s EXCEPT !.filters = NoFilters, !.pagination.currentPage = 1, !.sort = DefaultSort]

\* clearFilters of Transactions and the plain SchoolTransactions: the new
\* filters object has empty status and search (and schoolIds) and no dates;
\* the state it leaves.
Cleared(s) ==
  [s EXCEPT !.filters = NoFilters, !.pagination.currentPage = 1]

clearFilters ==
  /\ view \in {TransactionsView, SchoolViewPlain}
  /\ ControlsShown
  /\ UserAction("clearFilters", Cleared(Cur), TRUE)

\* handleSchoolChange of both SchoolTransactions: the school selector's onChange.
handleSchoolChange(schoolId) ==
  /\ view \in ScopedViews
  /\ schoolId # selectedSchoolId
  /\ UserAction("handleSchoolChange",
                [Cur EXCEPT !.selectedSchoolId = schoolId,
                            !.pagination = PageOne,
                            !.searchParams = updateURLParams(view, searchParams,
                                               filters, sort, PageOne, Cur)],
                FALSE)

\* handleRowsPerPageChange of the URL-synchronised SchoolTransactions.
handleRowsPerPageChange(newRowsPerPage) ==
  /\ view = SchoolViewURL
  /\ ControlsShown
  /\ newRowsPerPage # rowsPerPage
  /\ UserAction("handleRowsPerPageChange",
                [Cur EXCEPT !.rowsPerPage = newRowsPerPage,
                            !.pagination = PageOne,
                            !.searchParams = updateURLParams(view, searchParams,
                                               filters, sort, PageOne, Cur)],
                FALSE)

\* handleFilterByChange of the URL-synchronised SchoolTransactions.
handleFilterByChange(filterBy) ==
  /\ view = SchoolViewURL
  /\ ControlsShown
  /\ filterBy # selectedFilter
  /\ UserAction("handleFilterByChange",
                [Cur EXCEPT !.selectedFilter = filterBy,
                            !.searchParams = updateURLParams(view, searchParams,
                                               filters, sort, pagination, Cur)],
                FALSE)

\* handleDateFilterChange of the URL-synchronised SchoolTransactions.
handleDateFilterChange(dateFilter) ==
  /\ view = SchoolViewURL
  /\ ControlsShown
  /\ dateFilter # selectedDate
  /\ UserAction("handleDateFilterChange",
                [Cur EXCEPT !.selectedDate = dateFilter,
                            !.searchParams = updateURLParams(view, searchParams,
                                               filters, sort, pagination, Cur)],
                FALSE)

\* PaginationShown changed to render the bar whatever totalPages is.
PaginationShown_Always == ControlsShown

\* The pagination bar is rendered: pagination.totalPages > 1.
PaginationShown == ControlsShown /\ Gt(pagination.totalPages, 1)

\* The Previous button is rendered and not disabled.
PreviousEnabled == PaginationShown /\ pagination.hasPrevPage
\* The Next button is rendered and not disabled.
NextEnabled == PaginationShown /\ pagination.hasNextPage

\* onClick of the Previous button.
clickPrevious ==
  /\ PreviousEnabled
  /\ UserAction("clickPrevious",
                [Cur EXCEPT !.pagination.currentPage = Plus(@, 0 - 1)], FALSE)

\* onClick of the Next button.
clickNext ==
  /\ NextEnabled
  /\ UserAction("clickNext",
                [Cur EXCEPT !.pagination.currentPage = Plus(@, 1)], FALSE)

\* onClick of the numbered button of page (a click on the current page's
\* button changes nothing and is left out).
clickPage(page) ==
  /\ PaginationShown
  /\ page \in 1..pagination.totalPages
  /\ page # pagination.currentPage
  /\ UserAction("clickPage",
                [Cur EXCEPT !.pagination.currentPage = page], FALSE)

\* Dashboard's Try Again button, rendered with the error: loadTransactions().
clickTryAgain ==
  /\ phase = "live"
  /\ view = DashboardView
  /\ error # Empty
  /\ nActions < MaxActions
  /\ Len(inflight) < MaxInflight
  /\ Becomes(Started(view, Cur))
  /\ inflight' = Append(inflight, NewFetch(view, Cur))
  /\ lastOp' = "clickTryAgain"
  /\ nActions' = nActions + 1
  /\ toasts' = << >>
  /\ UNCHANGED << view, phase, saved >>
  /\ UNCHANGED << apiVars, lookupVars, requestUrl >>

\* -------------------------------------------------------- fetch completions

\* The fetches left in flight once the i-th is answered; with overtake, those
\* issued before it are marked as overtaken by a later fetch's answer.
Remaining(i, overtake) ==
  [j \in 1..(Len(inflight) - 1) |->
     IF j < i THEN [inflight[j] EXCEPT !.overtaken = @ \/ overtake]
     ELSE inflight[j + 1]]

\* The argument of setPagination for the body resp: Dashboard falls back to
\* the default metadata when the body carries none.
PaginationOf(v, resp) ==
  IF v = DashboardView /\ ~Given(resp.pagination) THEN DefaultPagination
  ELSE resp.pagination

\* Loaded changed to drop the answer of a fetch that a later one's answer
\* has overtaken (a request sequencing token).
Loaded_DropsOvertaken(s, f, resp) ==
  IF f.overtaken THEN [s EXCEPT !.loading = FALSE]
  ELSE [s EXCEPT !.transactions = [shown |-> TRUE, rows |-> resp.rows, query |-> f.req,
                                   overtaken |-> f.overtaken,
                                   metadata |-> resp.pagination],
                 !.pagination = PaginationOf(view, resp),
                 !.searchParams = updateURLParams(view, s.searchParams, f.req.filters,
                                    f.req.sort, [currentPage |-> f.req.page], f.closure),
                 !.loading = FALSE]

\* loadTransactions after its await returned resp for fetch f: the rows and
\* the pagination metadata replace those held, the URL is rewritten from the
\* filters, sort and pagination of the render that issued f, loading ends.
Loaded(s, f, resp) ==
  [s EXCEPT !.transactions = [shown |-> TRUE, rows |-> resp.rows, query |-> f.req,
                              overtaken |-> f.overtaken,
                              metadata |-> resp.pagination],
            !.pagination = PaginationOf(view, resp),
            !.searchParams = updateURLParams(view, s.searchParams, f.req.filters,
                               f.req.sort, [currentPage |-> f.req.page], f.closure),
            !.loading = FALSE]

\* LoadFailedToasts changed to notify from the interceptor and from the catch.
LoadFailedToasts_Twice(v) == << FailedToLoad, FailedToLoad >>

\* The notifications the catch of loadTransactions raises: one toast.error.
LoadFailedToasts(v) == << FailedToLoad >>

\* LoadFailed changed to empty the table as well.
LoadFailed_ClearsRows(s, message) ==
  [s EXCEPT !.error = IF view = DashboardView
                      THEN (IF message # Empty THEN message ELSE FailedToLoad)
                      ELSE @,
            !.transactions = NoTransactions,
            !.loading = FALSE]

\* LoadFailed changed to lack the finally block's setLoading(false).
LoadFailed_KeepsLoading(s, message) ==
  [s EXCEPT !.error = IF view = DashboardView
                      THEN (IF message # Empty THEN message ELSE FailedToLoad)
                      ELSE @]

\* loadTransactions after its await threw: Dashboard keeps the error's
\* message, or the fixed text when it has none; loading ends.
LoadFailed(s, message) ==
  [s EXCEPT !.error = IF view = DashboardView
                      THEN (IF message # Empty THEN message ELSE FailedToLoad)
                      ELSE @,
            !.loading = FALSE]

\* The i-th fetch in flight is answered with a page of rows; lastOp tells
\* whether a later-issued fetch had been answered before it.
FetchSucceeds(i) ==
  /\ phase = "live"
  /\ i \in 1..Len(inflight)
  /\ \E resp \in Responses(inflight[i].req) :
       Commit(Cur, Loaded(Cur, inflight[i], resp), FALSE, Remaining(i, TRUE))
  /\ lastOp' = IF inflight[i].overtaken THEN "staleLoadSucceeded" ELSE "loadSucceeded"
  /\ toasts' = << >>
  /\ UNCHANGED << view, nActions, phase, saved >>
  /\ UNCHANGED << apiVars, lookupVars, requestUrl >>

\* The messages a failed request's error may carry.
ErrorMessages == {Str("Network Error")}

\* The i-th fetch in flight fails (network error or non-2xx answer).
FetchFails(i) ==
  /\ phase = "live"
  /\ i \in 1..Len(inflight)
  /\ \E message \in ErrorMessages :
       Commit(Cur, LoadFailed(Cur, message), FALSE, Remaining(i, FALSE))
  /\ lastOp' = "loadFailed"
  /\ toasts' = LoadFailedToasts(view)
  /\ UNCHANGED << view, nActions, phase, saved >>
  /\ UNCHANGED << apiVars, lookupVars, requestUrl >>

\* ------------------------------------------------------- any URL a user types

\* The keys typed and the values each may have: numeric and non-numeric page
\* and limit, one status, a comma-separated list and a word that is no
\* status, a comma-separated list of school ids, a sort direction and a word
\* that is none, and a key no view reads.
TypedKeys == {"page", "limit", "status", "schoolIds", "sortDirection", "utm_source"}
TypedValues ==
  [page : {<< "2" >>, Str("abc")},
   limit : {<< "2", "5" >>, Str("abc")},
   status : {Str("success"), << "success", Comma, "pending" >>, Str("bogus")},
   schoolIds : {<< "65b0e6293e9f76a9694d84b4", Comma, "65b0e6293e9f76a9694d84b5" >>},
   sortDirection : {Str("asc"), Str("sideways")},
   utm_source : {Str("mail")}]

\* The query strings with any of the keys present.
TypedURLs == {[k \in keys |-> values[k]] : keys \in SUBSET TypedKeys, values \in TypedValues}

\* A URL view is about to be opened on a typed URL.
InitDecode ==
  /\ view \in URLViews
  /\ searchParams \in TypedURLs
  /\ transactions = NoTransactions
  /\ loading = TRUE
  /\ error = Empty
  /\ pagination = DefaultPagination
  /\ filters = NoFilters
  /\ sort = DefaultSort
  /\ rowsPerPage = DefaultPageSize
  /\ selectedSchoolId = Empty
  /\ selectedStatus = Empty
  /\ selectedFilter = Empty
  /\ selectedDate = Empty
  /\ inflight = << >>
  /\ lastOp = "none"
  /\ nActions = 0
  /\ phase = "typed"
  /\ saved = QueryState(view, PlainMount(NoParams))
  /\ SignedIn
  /\ NoLookup

\* The page is opened on the typed URL: the useState initialisers run.
Open ==
  /\ phase = "typed"
  /\ phase' = "opened"
  /\ Becomes(Mount(view, searchParams))
  /\ lastOp' = "open"
  /\ UNCHANGED << view, inflight, nActions, saved >>
  /\ UNCHANGED << apiVars, lookupVars, toasts, requestUrl >>

NextDecode == Open

SpecDecode == InitDecode /\ [][NextDecode]_vars

\* ------------------------------------------------ any body the server sends

\* The 2xx bodies a request may be answered with: those of a well-behaved
\* server and bodies that carry rows but no pagination metadata.
Bodies(req) ==
  Responses(req) \cup {[rows |-> n, pagination |-> Undefined] : n \in {0, 1}}

\* The states a view fetches in: search text, page and selections vary.
AnswerStates(v) ==
  {s \in DomainStates(v) :
     /\ s.rowsPerPage = DefaultPageSize
     /\ s.sort = DefaultSort
     /\ s.filters.status = << >>
     /\ s.filters.dateFrom = Empty
     /\ s.filters.dateTo = Empty
     /\ EffectLoads(v, s)}

\* A view has called loadTransactions and awaits the response.
InitAnswer ==
  /\ view \in Views
  /\ \E s0 \in AnswerStates(view) :
       LET s == Started(view, s0)
       IN  /\ searchParams = s.searchParams
           /\ transactions = s.transactions
           /\ loading = s.loading
           /\ error = s.error
           /\ pagination = s.pagination
           /\ filters = s.filters
           /\ sort = s.sort
           /\ rowsPerPage = s.rowsPerPage
           /\ selectedSchoolId = s.selectedSchoolId
           /\ selectedStatus = s.selectedStatus
           /\ selectedFilter = s.selectedFilter
           /\ selectedDate = s.selectedDate
           /\ inflight = << NewFetch(view, s0) >>
  /\ lastOp = "mount"
  /\ nActions = 0
  /\ phase = "answer"
  /\ saved = QueryState(view, PlainMount(NoParams))
  /\ SignedIn
  /\ NoLookup

\* The i-th fetch in flight is answered 2xx with any body. With metadata to
\* render, the view renders and its effect runs; a view left holding
\* undefined throws in its next render, and no effect runs.
AnswerArrives(i) ==
  /\ phase = "answer"
  /\ i \in 1..Len(inflight)
  /\ \E resp \in Bodies(inflight[i].req) :
       LET s == Loaded(Cur, inflight[i], resp)
       IN  IF Given(s.pagination)
           THEN /\ Commit(Cur, s, FALSE, Remaining(i, TRUE))
                /\ lastOp' = "loadSucceeded"
           ELSE /\ Becomes(s)
                /\ inflight' = Remaining(i, TRUE)
                /\ lastOp' = "renderThrew"
  /\ toasts' = << >>
  /\ UNCHANGED << view, nActions, phase, saved >>
  /\ UNCHANGED << apiVars, lookupVars, requestUrl >>

NextAnswer == \E i \in 1..MaxInflight : AnswerArrives(i)

SpecAnswer == InitAnswer /\ [][NextAnswer]_vars

\* ------------------------------------------------------ the StatusCheck page

StatusCheckView == "StatusCheck"

\* A whitespace character.
Blank == " "

RECURSIVE TrimStart(_)
\* s without its leading whitespace.
TrimStart(s) == IF s # Empty /\ Head(s) = Blank THEN TrimStart(Tail(s)) ELSE s

RECURSIVE TrimEnd(_)
\* s without its trailing whitespace.
TrimEnd(s) ==
  IF s # Empty /\ s[Len(s)] = Blank THEN TrimEnd(SubSeq(s, 1, Len(s) - 1)) ELSE s

\* String.prototype.trim.
Trim(s) == TrimEnd(TrimStart(s))

\* The texts typed into the transaction id input.
OrderIds == {Empty, << Blank >>, Str("ORD-1"), << Blank, "ORD-1" >>}

PleaseEnter == Str("Please enter a transaction ID")
NotFound == Str("Transaction not found")

\* The records the server answers a status lookup of id with.
StatusRecords(id) ==
  {[present |-> TRUE, custom_order_id |-> id, status |-> s] :
     s \in {Str("success"), Str("pending")}}

\* error.response?.data?.message of a failed lookup: Empty when the error has
\* no response or the response no message.
LookupMessages == {Empty, Str("Order not found")}

\* The state the StatusCheck page does not use stays as constructed.
ListStateUnused ==
  /\ searchParams = NoParams
  /\ transactions = NoTransactions
  /\ pagination = DefaultPagination
  /\ filters = NoFilters
  /\ sort = DefaultSort
  /\ rowsPerPage = DefaultPageSize
  /\ selectedSchoolId = Empty
  /\ selectedStatus = Empty
  /\ selectedFilter = Empty
  /\ selectedDate = Empty
  /\ inflight = << >>
  /\ nActions = 0
  /\ saved = QueryState(DashboardView, PlainMount(NoParams))

\* StatusCheck's useState initialisers.
StatusCheckMount ==
  /\ view = StatusCheckView
  /\ loading = FALSE
  /\ error = Empty
  /\ ListStateUnused
  /\ orderId = Empty
  /\ transaction = NoTransaction
  /\ lookups = << >>
  /\ toasts = << >>
  /\ requestUrl = NoUrl
  /\ lastOp = "mount"
  /\ SignedIn

\* What a step of the StatusCheck page leaves alone.
StatusCheckFrame ==
  /\ UNCHANGED << view, searchParams, transactions, pagination, filters, sort,
                  rowsPerPage, selectedSchoolId, selectedStatus, selectedFilter,
                  selectedDate, inflight, nActions, phase, saved >>
  /\ UNCHANGED << apiVars, requestUrl >>

\* The input's onChange: setOrderId(e.target.value).
setOrderId(text) ==
  /\ view = StatusCheckView
  /\ text # orderId
  /\ orderId' = text
  /\ toasts' = << >>
  /\ lastOp' = "setOrderId"
  /\ UNCHANGED << loading, error, transaction, lookups >>
  /\ StatusCheckFrame

\* handleSearchStatusCheck changed to test the id without trimming it.
handleSearchStatusCheck_NoTrim ==
  /\ Len(lookups) < MaxInflight
  /\ IF orderId = Empty
     THEN /\ toasts' = << PleaseEnter >>
          /\ UNCHANGED << loading, error, transaction, lookups >>
     ELSE /\ loading' = TRUE
          /\ error' = Empty
          /\ lookups' = Append(lookups, [orderId |-> orderId])
          /\ toasts' = << >>
          /\ UNCHANGED transaction
  /\ UNCHANGED orderId

\* handleSearch of StatusCheck up to its await: a blank id is refused with a
\* notification; otherwise loading starts, the error text is cleared and the
\* lookup of the id as typed leaves.
handleSearchStatusCheck ==
  /\ Len(lookups) < MaxInflight
  /\ IF Trim(orderId) = Empty
     THEN /\ toasts' = << PleaseEnter >>
          /\ UNCHANGED << loading, error, transaction, lookups >>
     ELSE /\ loading' = TRUE
          /\ error' = Empty
          /\ lookups' = Append(lookups, [orderId |-> orderId])
          /\ toasts' = << >>
          /\ UNCHANGED transaction
  /\ UNCHANGED orderId

\* SubmitEnabled changed to a button not disabled while loading.
SubmitEnabled_WhileLoading == Trim(orderId) # Empty

\* The Check Status button is not disabled.
SubmitEnabled == ~loading /\ Trim(orderId) # Empty

\* The form is submitted through its button.
clickCheckStatus ==
  /\ view = StatusCheckView
  /\ phase = "live"
  /\ SubmitEnabled
  /\ handleSearchStatusCheck
  /\ lastOp' = "clickCheckStatus"
  /\ StatusCheckFrame

\* The lookups left pending once the i-th is answered.
Settled(i) ==
  [j \in 1..(Len(lookups) - 1) |-> IF j < i THEN lookups[j] ELSE lookups[j + 1]]

\* The i-th lookup is answered with a record: it becomes the displayed
\* transaction and loading ends.
LookupSucceeds(i) ==
  /\ view = StatusCheckView
  /\ i \in 1..Len(lookups)
  /\ \E record \in StatusRecords(lookups[i].orderId) : transaction' = record
  /\ loading' = FALSE
  /\ lookups' = Settled(i)
  /\ toasts' = << >>
  /\ lastOp' = "lookupSucceeded"
  /\ UNCHANGED << orderId, error >>
  /\ StatusCheckFrame

\* LookupError changed to show the fixed text whatever the server said.
LookupError_FixedText(message) == NotFound

\* The error text of a failed lookup: the server's message, else the fixed one.
LookupError(message) == IF message # Empty THEN message ELSE NotFound

\* The i-th lookup fails: the error text is set, the displayed transaction is
\* cleared and loading ends. lastOp tells whether the error carried a message
\* of the server (rejected) or none (failed).
LookupFails(i) ==
  /\ view = StatusCheckView
  /\ i \in 1..Len(lookups)
  /\ \E message \in LookupMessages :
       /\ error' = LookupError(message)
       /\ lastOp' = IF message # Empty THEN "lookupRejected" ELSE "lookupFailed"
  /\ transaction' = NoTransaction
  /\ loading' = FALSE
  /\ lookups' = Settled(i)
  /\ toasts' = << >>
  /\ UNCHANGED orderId
  /\ StatusCheckFrame

\* The states handleSearch of StatusCheck is called in: any input text, with a
\* record, an error text or neither on display, with or without a lookup
\* pending.
InitLookup ==
  /\ view = StatusCheckView
  /\ orderId \in OrderIds
  /\ \/ transaction = NoTransaction /\ error \in {Empty} \cup {LookupError(m) : m \in LookupMessages}
     \/ transaction \in StatusRecords(Str("ORD-1")) /\ error = Empty
  /\ lookups \in {<< >>, << [orderId |-> Str("ORD-1")] >>}
  /\ loading = (lookups # << >>)
  /\ ListStateUnused
  /\ toasts = << >>
  /\ requestUrl = NoUrl
  /\ lastOp = "mount"
  /\ phase = "handler"
  /\ SignedIn

\* The form's onSubmit runs handleSearch.
submitLookup ==
  /\ view = StatusCheckView
  /\ phase = "handler"
  /\ handleSearchStatusCheck
  /\ lastOp' = "handleSearch"
  /\ StatusCheckFrame

NextLookup ==
  \/ submitLookup
  \/ \E i \in 1..MaxInflight : LookupSucceeds(i)
  \/ \E i \in 1..MaxInflight : LookupFails(i)

SpecLookup == InitLookup /\ [][NextLookup]_vars

\* ------------------------------------------------- the service's query strings

\* new URLSearchParams({page, limit}): the ordered list of key/value pairs.
URLSearchParamsInit(page, limit) ==
  << << "page", NumberToString(page) >>, << "limit", NumberToString(limit) >> >>

\* params.append(key, value).
AppendParam(params, key, value) == Append(params, << key, value >>)

\* AppendEach changed to send one comma-joined value.
AppendEach_CommaJoined(params, key, list) ==
  IF Len(list) > 0 THEN AppendParam(params, key, Join(list)) ELSE params

RECURSIVE AppendEach(_, _, _)
\* list.forEach(value => params.append(key, value)).
AppendEach(params, key, list) ==
  IF list = << >> THEN params
  ELSE AppendEach(AppendParam(params, key, Head(list)), key, Tail(list))

\* if (value) params.append(key, value), for a string value.
AppendIf(params, key, value) ==
  IF value # Empty THEN AppendParam(params, key, value) ELSE params

\* The pairs both list functions append after page and limit, school ids aside.
CommonParams(params, s, f, withSchools) ==
  LET p1 == IF Given(s)
            THEN AppendParam(AppendParam(params, "sortBy", s.field),
                             "sortOrder", s.direction)
            ELSE params
      p2 == IF Given(f) /\ Len(f.status) > 0
            THEN AppendEach(p1, "status", f.status) ELSE p1
      p3 == IF withSchools /\ Given(f) /\ Len(f.schoolIds) > 0
            THEN AppendEach(p2, "school_id", f.schoolIds) ELSE p2
      p4 == IF Given(f) THEN AppendIf(p3, "dateFrom", f.dateFrom) ELSE p3
      p5 == IF Given(f) THEN AppendIf(p4, "dateTo", f.dateTo) ELSE p4
  IN  IF Given(f) THEN AppendIf(p5, "search", f.search) ELSE p5

\* transactionService.getAllTransactions: the URL it requests.
getAllTransactions(pg, s, f) ==
  [path |-> Str("/transactions"),
   query |-> CommonParams(URLSearchParamsInit(pg.page, pg.limit), s, f, TRUE)]

\* getTransactionsBySchool changed to forward filters.schoolIds as well.
getTransactionsBySchool_WithSchoolIds(schoolId, pg, s, f) ==
  [path |-> << "/transactions/school/" >> \o schoolId,
   query |-> CommonParams(URLSearchParamsInit(pg.page, pg.limit), s, f, TRUE)]

\* transactionService.getTransactionsBySchool: the URL it requests.
getTransactionsBySchool(schoolId, pg, s, f) ==
  [path |-> << "/transactions/school/" >> \o schoolId,
   query |-> CommonParams(URLSearchParamsInit(pg.page, pg.limit), s, f, FALSE)]

\* application/x-www-form-urlencoded serialisation of one string: a space
\* becomes '+'.
FormEncode(s) == [i \in 1..Len(s) |-> IF s[i] = Blank THEN "+" ELSE s[i]]

RECURSIVE ToQueryString(_)
\* URLSearchParams.prototype.toString: key=value pairs joined by '&'.
ToQueryString(params) ==
  IF params = << >> THEN Empty
  ELSE LET pair == << params[1][1], "=" >> \o FormEncode(params[1][2])
       IN  IF Len(params) = 1 THEN pair
           ELSE pair \o << "&" >> \o ToQueryString(Tail(params))

\* The values appended under key, in order.
RECURSIVE ValuesOf(_, _)
ValuesOf(params, key) ==
  IF params = << >> THEN << >>
  ELSE IF params[1][1] = key THEN << params[1][2] >> \o ValuesOf(Tail(params), key)
  ELSE ValuesOf(Tail(params), key)

\* params without the pairs appended under key.
RECURSIVE Without(_, _)
Without(params, key) ==
  IF params = << >> THEN << >>
  ELSE IF params[1][1] = key THEN Without(Tail(params), key)
  ELSE << params[1] >> \o Without(Tail(params), key)

\* The school ids a caller may filter by.
FilterSchoolIds == SchoolIds \cup {Str("65b0e6293e9f76a9694d84b5")}

\* The arguments of a call, held in the caller's state: pagination.currentPage
\* and rowsPerPage are page and limit.
PageArg == [page |-> pagination.currentPage, limit |-> rowsPerPage]

\* A caller is about to call the service with arguments of the declared types.
InitQuery ==
  /\ view = TransactionsView
  /\ searchParams = NoParams
  /\ transactions = NoTransactions
  /\ loading = FALSE
  /\ error = Empty
  /\ pagination \in {[DefaultPagination EXCEPT !.currentPage = page] : page \in 1..MaxPages}
  /\ rowsPerPage \in RowsOptions
  /\ sort \in {Undefined, DefaultSort, [field |-> Str("status"), direction |-> Str("asc")]}
  /\ filters \in {Undefined} \cup
        [status : ListsOver(StatusValues), schoolIds : ListsOver(FilterSchoolIds),
         search : SearchTexts, dateFrom : DateValues, dateTo : DateValues]
  /\ selectedSchoolId \in SchoolIds
  /\ selectedStatus = Empty
  /\ selectedFilter = Empty
  /\ selectedDate = Empty
  /\ inflight = << >>
  /\ lastOp = "none"
  /\ nActions = 0
  /\ phase = "query"
  /\ saved = QueryState(view, PlainMount(NoParams))
  /\ NoLookup
  /\ SignedIn

\* What building a request URL leaves alone.
QueryFrame ==
  /\ UNCHANGED << view, searchParams, transactions, loading, error, pagination,
                  filters, sort, rowsPerPage, selectedSchoolId, selectedStatus,
                  selectedFilter, selectedDate, inflight, nActions, phase, saved >>
  /\ UNCHANGED << apiVars, lookupVars, toasts >>

\* getAllTransactions is called.
callGetAllTransactions ==
  /\ phase = "query"
  /\ requestUrl' = getAllTransactions(PageArg, sort, filters)
  /\ lastOp' = "getAllTransactions"
  /\ QueryFrame

\* getTransactionsBySchool is called.
callGetTransactionsBySchool ==
  /\ phase = "query"
  /\ requestUrl' = getTransactionsBySchool(selectedSchoolId, PageArg, sort, filters)
  /\ lastOp' = "getTransactionsBySchool"
  /\ QueryFrame

NextQuery ==
  \/ callGetAllTransactions
  \/ callGetTransactionsBySchool

SpecQuery == InitQuery /\ [][NextQuery]_vars

\* ------------------------------------------------------------ the views run

\* The one-parameter query string key=value.
Param(key, value) == [k \in {key} |-> value]

\* The parameters of both a and b.
With(a, b) ==
  [k \in (DOMAIN a) \cup (DOMAIN b) |-> IF k \in DOMAIN b THEN b[k] ELSE a[k]]

OneSchool == Param("schoolId", Str("65b0e6293e9f76a9694d84b4"))

\* The query strings a view is opened with: the views without useSearchParams
\* ignore theirs.
InitialURLs(v) ==
  IF v = DashboardView
  THEN {NoParams,
        Param("page", << "2" >>),
        With(Param("page", Str("abc")), Param("limit", << "0" >>))}
  ELSE IF v = SchoolViewURL
  THEN {NoParams,
        With(OneSchool, With(Param("page", << "2" >>),
                             Param("filterBy", Str("amount"))))}
  ELSE {NoParams}

\* The view is mounted on a URL: the useState initialisers run, then the
\* fetching effect for the first time.
ListMount ==
  /\ view \in Views
  /\ \E params \in InitialURLs(view) :
       LET s == Mount(view, params)
           loads == EffectLoads(view, s)
           t == IF loads THEN Started(view, s) ELSE s
       IN  /\ searchParams = t.searchParams
           /\ transactions = t.transactions
           /\ loading = t.loading
           /\ error = t.error
           /\ pagination = t.pagination
           /\ filters = t.filters
           /\ sort = t.sort
           /\ rowsPerPage = t.rowsPerPage
           /\ selectedSchoolId = t.selectedSchoolId
           /\ selectedStatus = t.selectedStatus
           /\ selectedFilter = t.selectedFilter
           /\ selectedDate = t.selectedDate
           /\ inflight = IF loads THEN << NewFetch(view, s) >> ELSE << >>
  /\ lastOp = "mount"
  /\ nActions = 0
  /\ phase = "live"
  /\ saved = QueryState(view, PlainMount(NoParams))
  /\ SignedIn
  /\ NoLookup

\* A page is opened.
Init ==
  \/ ListMount
  \/ StatusCheckMount /\ phase = "live"

Next ==
  \/ \E text \in SearchTexts : handleSearch(text)
  \/ \E field \in SortButtons(view) : handleSort(field)
  \/ \E opt \in StatusOptions : handleStatusFilterChangeDashboard(opt)
  \/ \E opt \in StatusOptions : handleStatusFilterChangeSchool(opt)
  \/ \E date \in DateValues : handleDateFromChange(date)
  \/ \E status \in StatusValues : handleStatusFilter(status)
  \/ \E id \in SchoolIds : handleSchoolFilter(id)
  \/ clearFilters
  \/ \E id \in {Empty} \cup SchoolIds : handleSchoolChange(id)
  \/ \E n \in RowsOptions : handleRowsPerPageChange(n)
  \/ \E f \in FilterByOptions : handleFilterByChange(f)
  \/ \E d \in DateFilterOptions : handleDateFilterChange(d)
  \/ clickPrevious
  \/ clickNext
  \/ \E page \in 1..MaxPages : clickPage(page)
  \/ clickTryAgain
  \/ \E i \in 1..MaxInflight : FetchSucceeds(i)
  \/ \E i \in 1..MaxInflight : FetchFails(i)
  \/ \E text \in OrderIds : setOrderId(text)
  \/ clickCheckStatus
  \/ \E i \in 1..MaxInflight : LookupSucceeds(i)
  \/ \E i \in 1..MaxInflight : LookupFails(i)

Spec == Init /\ [][Next]_vars

\* ------------------------------------------ answers that echo the page asked

\* The bodies whose metadata names the page the request asked for.
EchoResponses(req) == {resp \in Responses(req) : resp.pagination.currentPage = req.page}

\* The i-th fetch in flight is answered with the page it asked for.
EchoSucceeds(i) ==
  /\ phase = "live"
  /\ i \in 1..Len(inflight)
  /\ \E resp \in EchoResponses(inflight[i].req) :
       Commit(Cur, Loaded(Cur, inflight[i], resp), FALSE, Remaining(i, TRUE))
  /\ lastOp' = IF inflight[i].overtaken THEN "staleLoadSucceeded" ELSE "loadSucceeded"
  /\ toasts' = << >>
  /\ UNCHANGED << view, nActions, phase, saved >>
  /\ UNCHANGED << apiVars, lookupVars, requestUrl >>

\* Some fetch in flight settles.
Settles == \E i \in 1..MaxInflight : EchoSucceeds(i) \/ FetchFails(i)

\* The user changes pages and searches, at most MaxActions times; every
\* answer echoes the page asked for.
NextQuiet ==
  \/ \E text \in SearchTexts : handleSearch(text)
  \/ clickPrevious
  \/ clickNext
  \/ \E page \in 1..MaxPages : clickPage(page)
  \/ \E i \in 1..MaxInflight : EchoSucceeds(i)
  \/ \E i \in 1..MaxInflight : FetchFails(i)

\* Every request is answered or fails in the end.
SpecQuiet == ListMount /\ [][NextQuiet]_vars /\ WF_vars(Settles)

\* ------------------------------------------------- the shared HTTP client

\* The paths requested through the client.
Endpoints == {"/transactions", "/transactions/status", "/auth/login"}

\* The header value `Bearer ${token}`.
Bearer(token) == << "Bearer " >> \o token

\* A config whose Authorization header was never set.
NoHeader == Empty

\* RequestInterceptor changed to set the header whatever getItem returned.
RequestInterceptor_AlwaysBearer(url, storage) ==
  [url |-> url, authorization |-> Bearer(storage.token)]

\* The request interceptor: the config with Authorization set when
\* localStorage holds a token (getItem's null and '' are both falsy).
RequestInterceptor(url, storage) ==
  [url |-> url,
   authorization |-> IF storage.token # Empty THEN Bearer(storage.token) ELSE NoHeader]

\* The requests pending once the i-th is answered.
Answered(i) ==
  [j \in 1..(Len(requests) - 1) |-> IF j < i THEN requests[j] ELSE requests[j + 1]]

\* Rejected changed to remove the token only.
Rejected_KeepsUser(storage) == [storage EXCEPT !.token = Empty]

\* The response interceptor's error branch on status 401:
\* removeItem('token'), removeItem('user').
Rejected(storage) == [storage EXCEPT !.token = Empty, !.user = Empty]

\* The browser is opened with or without a stored session.
InitApi ==
  /\ view = TransactionsView
  /\ searchParams = NoParams
  /\ transactions = NoTransactions
  /\ loading = FALSE
  /\ error = Empty
  /\ pagination = DefaultPagination
  /\ filters = NoFilters
  /\ sort = DefaultSort
  /\ rowsPerPage = DefaultPageSize
  /\ selectedSchoolId = Empty
  /\ selectedStatus = Empty
  /\ selectedFilter = Empty
  /\ selectedDate = Empty
  /\ inflight = << >>
  /\ lastOp = "none"
  /\ nActions = 0
  /\ phase = "api"
  /\ saved = QueryState(view, PlainMount(NoParams))
  /\ NoLookup
  /\ localStorage \in {NoSession} \cup Sessions
  /\ location \in {LoginPath, DashboardPath}
  /\ requests = << >>
  /\ rejected = 0

\* The login page stores the token and the user the server answered with and
\* opens the dashboard.
Login(session) ==
  /\ phase = "api"
  /\ localStorage' = session
  /\ location' = DashboardPath
  /\ rejected' = 0
  /\ UNCHANGED requests
  /\ UNCHANGED viewVars

\* api.get / api.post of url: the request interceptor runs, the request leaves.
\* The pending request remembers how many 401 answers had been handled since
\* the last login when it left.
Send(url) ==
  /\ phase = "api"
  /\ Len(requests) < MaxPending
  /\ requests' = Append(requests, [config |-> RequestInterceptor(url, localStorage),
                                   rejected |-> rejected])
  /\ UNCHANGED << localStorage, location, rejected >>
  /\ UNCHANGED viewVars

\* A 2xx answer to the i-th request: the response interceptor passes it on.
Respond2xx(i) ==
  /\ phase = "api"
  /\ i \in 1..Len(requests)
  /\ requests' = Answered(i)
  /\ UNCHANGED << localStorage, location, rejected >>
  /\ UNCHANGED viewVars

\* A 401 answer to the i-th request: the response interceptor clears the
\* session and navigates to /login before rejecting.
Respond401(i) ==
  /\ phase = "api"
  /\ i \in 1..Len(requests)
  /\ requests' = Answered(i)
  /\ localStorage' = Rejected(localStorage)
  /\ location' = LoginPath
  /\ rejected' = IF rejected < 2 THEN rejected + 1 ELSE rejected
  /\ UNCHANGED viewVars

\* Any other failure of the i-th request (no response, or a status other
\* than 401): the response interceptor only rejects.
RespondError(i) ==
  /\ phase = "api"
  /\ i \in 1..Len(requests)
  /\ requests' = Answered(i)
  /\ UNCHANGED << localStorage, location, rejected >>
  /\ UNCHANGED viewVars

NextApi ==
  \/ \E session \in Sessions : Login(session)
  \/ \E url \in Endpoints : Send(url)
  \/ \E i \in 1..MaxPending : Respond2xx(i)
  \/ \E i \in 1..MaxPending : Respond401(i)
  \/ \E i \in 1..MaxPending : RespondError(i)

SpecApi == InitApi /\ [][NextApi]_vars

\* ------------------------------------------------------ properties of the views

\* C3: once a user action has been made and no fetch is in flight, the Query
\* State in memory equals the one the initialisers decode from the URL.
C3_MemoryEqualsURL ==
  (phase = "live" /\ nActions > 0 /\ inflight = << >>) =>
     QueryState(view, Cur) = QueryState(view, Mount(view, searchParams))

\* The same for the two views that call updateURLParams.
C3_MemoryEqualsURLInURLViews ==
  (phase = "live" /\ view \in URLViews /\ nActions > 0 /\ inflight = << >>) =>
     QueryState(view, Cur) = QueryState(view, Mount(view, searchParams))

\* The handlers that change a filter.
FilterOps ==
  {"handleSearch", "handleStatusFilterChange", "handleStatusFilter",
   "handleSchoolFilter", "handleDateFromChange"}

\* C4: every step of a filter-changing handler that changes the filters leaves
\* currentPage at 1.
C4_FilterChangeResetsPage ==
  [][(lastOp' \in FilterOps /\ nActions' = nActions + 1 /\ filters' # filters)
       => pagination'.currentPage = 1]_vars

\* C5: handleSort(field) sets the field; on the current field it turns asc into
\* desc and desc into asc, on another field the direction becomes asc; it
\* leaves currentPage and the filters as they were.
C5_HandleSort ==
  [][\A field \in SortFields :
       handleSort(field) =>
         /\ sort'.field = field
         /\ (sort.field = field /\ sort.direction = Str("asc"))
               => sort'.direction = Str("desc")
         /\ (sort.field = field /\ sort.direction = Str("desc"))
               => sort'.direction = Str("asc")
         /\ sort.field # field => sort'.direction = Str("asc")
         /\ pagination'.currentPage = pagination.currentPage
         /\ filters' = filters]_vars

\* A second click on the status column has turned its ascending sort into a
\* descending one, the page and filters being what they were.
C5_SortedTwice ==
  /\ view = TransactionsView
  /\ lastOp = "handleSort"
  /\ nActions = 2
  /\ sort = [field |-> Str("status"), direction |-> Str("desc")]

\* C6: clearFilters empties every filter field and sets currentPage to 1; the
\* sort and the page size stay as they were.
C6_ClearFilters ==
  [][clearFilters =>
       /\ filters' = NoFilters
       /\ pagination'.currentPage = 1
       /\ sort' = sort
       /\ rowsPerPage' = rowsPerPage]_vars

\* clearFilters ran while the rows of a filtered query were shown.
C6_ClearedAfterSearch ==
  /\ lastOp = "clearFilters"
  /\ filters = NoFilters
  /\ pagination.currentPage = 1
  /\ transactions.shown
  /\ transactions.query.filters # NoFilters

\* C7: every list request in flight carries a page and a limit of at least 1.
C7_RequestsInRange ==
  \A i \in 1..Len(inflight) :
     /\ ~IsNaN(inflight[i].req.page) /\ inflight[i].req.page >= 1
     /\ ~IsNaN(inflight[i].req.limit) /\ inflight[i].req.limit >= 1

\* C7 for requests issued after the first answer arrived, from page clicks only.
C7_ClickedPagesInRange ==
  (lastOp \in {"clickPrevious", "clickNext", "clickPage"}) =>
     (~IsNaN(pagination.currentPage) /\ pagination.currentPage >= 1)

\* C8: while the pagination bar is rendered (its numbered buttons are always
\* enabled; Previous and Next by the has-prev / has-next flags), currentPage
\* lies in 1..totalPages.
C8_PageInRange ==
  (PaginationShown \/ PreviousEnabled \/ NextEnabled) =>
     (~IsNaN(pagination.currentPage)
        /\ pagination.currentPage \in 1..pagination.totalPages)

\* C9: the answer to a fetch that a later-issued fetch's answer has overtaken
\* is applied like any other: its rows and its pagination metadata are those
\* shown once it has been handled.
C9_StaleAnswerApplied ==
  lastOp = "staleLoadSucceeded" =>
    /\ transactions.shown
    /\ transactions.overtaken
    /\ \E resp \in Responses(transactions.query) :
          /\ transactions.rows = resp.rows
          /\ pagination = resp.pagination

\* The view is at rest on the rows of an overtaken fetch, which are not those
\* of the Query State it holds.
C9_RestsOnStaleRows ==
  /\ phase = "live"
  /\ inflight = << >>
  /\ ~loading
  /\ transactions.shown
  /\ transactions.overtaken
  /\ transactions.query # Request(view, Cur)

\* ------------------------------------------- properties of the HTTP client

\* C10: once a 401 has been handled, and until a login, localStorage holds
\* neither token nor user and the browser is at /login; a further 401 leaves
\* that state as it is.
C10_UnauthorizedClearsSession ==
  rejected > 0 =>
    /\ localStorage = NoSession
    /\ location = LoginPath

\* Two 401 answers have been handled with no login in between.
C10_RejectedTwice ==
  /\ phase = "api"
  /\ rejected = 2
  /\ localStorage = NoSession
  /\ location = LoginPath

\* C11: every request that leaves carries Authorization: Bearer <token> exactly
\* when localStorage holds a token as it is sent, with the token then stored;
\* a request sent after a 401 cleared the credentials carries no header.
C11_AuthorizationHeader ==
  [][Len(requests') = Len(requests) + 1 =>
       LET config == requests'[Len(requests')].config
       IN  /\ localStorage.token # Empty =>
                config.authorization = Bearer(localStorage.token)
           /\ localStorage.token = Empty => config.authorization = NoHeader
           /\ rejected > 0 => config.authorization = NoHeader]_vars

\* A request sent after a 401 answer cleared the credentials is pending, with
\* no header.
C11_SentAfterRejection ==
  \E i \in 1..Len(requests) :
    /\ requests[i].rejected > 0
    /\ requests[i].config.authorization = NoHeader

\* C12: submitting the status lookup with an empty or whitespace-only id issues
\* no request, raises the validation notification and leaves loading, the
\* displayed transaction and the error text as they were.
C12_BlankIdRefused ==
  [][lastOp' = "handleSearch" /\ Trim(orderId) = Empty =>
       /\ lookups' = lookups
       /\ toasts' = << PleaseEnter >>
       /\ loading' = loading
       /\ transaction' = transaction
       /\ error' = error]_vars

\* The form was submitted with a whitespace-only id while a record was on
\* display.
C12_WhitespaceSubmitted ==
  /\ lastOp = "handleSearch"
  /\ orderId = << Blank >>
  /\ toasts = << PleaseEnter >>
  /\ transaction.present

\* The query string the claim gives for search 'abc', page 1, limit 10 and the
\* default sort.
SearchAbcQuery ==
  << "page", "=", "1", "&", "limit", "=", "1", "0", "&",
     "sortBy", "=", "payment_time", "&", "sortOrder", "=", "desc", "&",
     "search", "=", "abc" >>

\* The value list an optional string filter contributes.
Once(value) == IF value # Empty THEN << value >> ELSE << >>

\* C13: getAllTransactions always sends page and limit; sortBy and sortOrder
\* when a sort is given; one status pair per status and one school_id pair per
\* school id; dateFrom, dateTo and search only when non-empty; and for search
\* 'abc', page 1, limit 10 and the default sort the query string is
\* page=1&limit=10&sortBy=payment_time&sortOrder=desc&search=abc.
C13_QueryString ==
  lastOp = "getAllTransactions" =>
    LET q == requestUrl.query
        f == IF Given(filters) THEN filters ELSE NoFilters
    IN  /\ ValuesOf(q, "page") = << NumberToString(pagination.currentPage) >>
        /\ ValuesOf(q, "limit") = << NumberToString(rowsPerPage) >>
        /\ ValuesOf(q, "sortBy") = IF Given(sort) THEN << sort.field >> ELSE << >>
        /\ ValuesOf(q, "sortOrder") = IF Given(sort) THEN << sort.direction >> ELSE << >>
        /\ ValuesOf(q, "status") = f.status
        /\ ValuesOf(q, "school_id") = f.schoolIds
        /\ ValuesOf(q, "dateFrom") = Once(f.dateFrom)
        /\ ValuesOf(q, "dateTo") = Once(f.dateTo)
        /\ ValuesOf(q, "search") = Once(f.search)
        /\ (/\ pagination.currentPage = 1 /\ rowsPerPage = 10
            /\ Given(sort) /\ sort = DefaultSort
            /\ f = [NoFilters EXCEPT !.search = Str("abc")])
             => ToQueryString(q) = SearchAbcQuery

\* getAllTransactions was called with two statuses and two school ids.
C13_TwoStatusesTwoSchools ==
  /\ lastOp = "getAllTransactions"
  /\ Given(filters) /\ Len(filters.status) = 2 /\ Len(filters.schoolIds) = 2
  /\ Len(ValuesOf(requestUrl.query, "status")) = 2
  /\ Len(ValuesOf(requestUrl.query, "school_id")) = 2

\* C14: getTransactionsBySchool's query string is getAllTransactions' for the
\* same arguments with every school_id pair removed; the school id is sent in
\* the path only.
C14_BySchoolQuery ==
  lastOp = "getTransactionsBySchool" =>
    /\ ToQueryString(requestUrl.query) =
         ToQueryString(Without(getAllTransactions(PageArg, sort, filters).query,
                               "school_id"))
    /\ ValuesOf(requestUrl.query, "school_id") = << >>
    /\ requestUrl.path = << "/transactions/school/" >> \o selectedSchoolId

\* getTransactionsBySchool was called with school ids among the filters.
C14_BySchoolWithSchoolFilter ==
  /\ lastOp = "getTransactionsBySchool"
  /\ Given(filters) /\ Len(filters.schoolIds) > 0
  /\ Len(requestUrl.query) > 4

\* C15: a scoped view never has a list request out whose school id is empty,
\* whether it was mounted without a school or the empty option was selected
\* again.
C15_ScopedRequestHasSchool ==
  view \in ScopedViews =>
    \A i \in 1..Len(inflight) : inflight[i].req.schoolId # Empty

\* The empty option was selected again in a scoped view while the fetch of
\* the school selected before is still out.
C15_EmptyOptionReselected ==
  /\ view \in ScopedViews
  /\ lastOp = "handleSchoolChange"
  /\ selectedSchoolId = Empty
  /\ Len(inflight) = 1

\* C16: the pagination metadata a view holds once a fetch has succeeded is the
\* object the response body carried; no default is put in its place.
C16_ServerMetadataHeld ==
  lastOp \in {"loadSucceeded", "renderThrew"} => pagination = transactions.metadata

\* Dashboard holds the default metadata after a body that carried none.
C16_DefaultSubstituted ==
  /\ view = DashboardView
  /\ lastOp = "loadSucceeded"
  /\ ~Given(transactions.metadata)
  /\ pagination = DefaultPagination

C18_FailureEndsIdle ==
  /\ lastOp = "loadFailed" => toasts # << >> \/ error # Empty
  /\ lastOp \in {"lookupFailed", "lookupRejected"} => toasts # << >> \/ error # Empty
  /\ (inflight = << >> /\ lookups = << >> /\ loading) =>
       (lastOp = "mount" /\ view \in ScopedViews /\ selectedSchoolId = Empty)

\* A status lookup failed; the page rests with the error text.
C18_LookupFailedIdle ==
  /\ lastOp = "lookupFailed"
  /\ error # Empty
  /\ lookups = << >>
  /\ ~loading

\* C19: a failed status lookup shows the server's message when the error
\* carries one and 'Transaction not found' otherwise, and no transaction is
\* displayed any more; after a successful lookup the record returned is the
\* displayed transaction.
C19_LookupOutcome ==
  /\ lastOp = "lookupRejected" =>
       error \in LookupMessages \ {Empty} /\ transaction = NoTransaction
  /\ lastOp = "lookupFailed" => error = NotFound /\ transaction = NoTransaction
  /\ lastOp = "lookupSucceeded" =>
       \E id \in OrderIds : transaction \in StatusRecords(id)

\* A lookup was rejected with a message of the server, which is displayed.
C19_ServerMessageShown ==
  /\ lastOp = "lookupRejected"
  /\ error = Str("Order not found")
  /\ ~transaction.present

\* The text is a decimal number.
Numeric(s) == s # Empty /\ \A i \in 1..Len(s) : IsDigit(s[i])

\* The URL without the key no view reads.
Recognised(params) == [k \in (DOMAIN params) \ {"utm_source"} |-> params[k]]

\* C20: decoding a URL is tolerant: a non-numeric page or limit decodes to the
\* default (page 1, size 10), a key no view reads changes nothing, and a
\* comma-separated status or school-id value decodes to the list of its parts.
C20_TolerantDecode ==
  lastOp = "open" =>
    /\ ("page" \in DOMAIN searchParams /\ ~Numeric(searchParams["page"])) =>
         pagination.currentPage = 1
    /\ ("limit" \in DOMAIN searchParams /\ ~Numeric(searchParams["limit"])) =>
         rowsPerPage = DefaultPageSize
    /\ Cur = [Mount(view, Recognised(searchParams)) EXCEPT !.searchParams = searchParams]
    /\ ("status" \in DOMAIN searchParams
          /\ searchParams["status"] = << "success", Comma, "pending" >>) =>
         filters.status = << Str("success"), Str("pending") >>
    /\ (view = DashboardView /\ "schoolIds" \in DOMAIN searchParams) =>
         Len(filters.schoolIds) = 2

\* C20, the part that holds: unread keys change nothing and comma-separated
\* values decode to lists, whatever page and limit say.
C20_KeysAndLists ==
  lastOp = "open" =>
    /\ Cur = [Mount(view, Recognised(searchParams)) EXCEPT !.searchParams = searchParams]
    /\ ("status" \in DOMAIN searchParams
          /\ searchParams["status"] = << "success", Comma, "pending" >>) =>
         filters.status = << Str("success"), Str("pending") >>
    /\ (view = DashboardView /\ "schoolIds" \in DOMAIN searchParams) =>
         Len(filters.schoolIds) = 2

\* The statuses of section 3.
DeclaredStatuses == {Str("success"), Str("pending"), Str("failed"), Str("cancelled")}

\* A status word in lower case (statuses are case-insensitive on input).
LowerCase(s) ==
  IF s = Str("Success") THEN Str("success")
  ELSE IF s = Str("Pending") THEN Str("pending")
  ELSE IF s = Str("Failed") THEN Str("failed")
  ELSE s

\* C21: the Query State of a list view stays inside its declared domains, for
\* any initial URL: sort.direction is 'asc' or 'desc' and every element of
\* filters.status is one of success, pending, failed, cancelled.
C21_QueryStateInDomains ==
  /\ sort.direction \in Directions
  /\ \A i \in 1..Len(filters.status) : LowerCase(filters.status[i]) \in DeclaredStatuses

\* The step issues a list request: a completion takes one fetch out of flight
\* and any other step none.
Issues ==
  IF lastOp' \in {"loadSucceeded", "staleLoadSucceeded", "loadFailed"}
  THEN Len(inflight') = Len(inflight)
  ELSE Len(inflight') = Len(inflight) + 1

\* C22 (as claimed): every list request carries the Query State held when the
\* effect that issued it fired, and every step that changes the Query State
\* issues one, so that the most recently issued request carries the final
\* Query State after any sequence of actions.
C22_RequestsCarryState ==
  [][(view \in Views) =>
       /\ Issues => inflight'[Len(inflight')].req = Request(view, Cur')
       /\ (Request(view, Cur') # Request(view, Cur) => Issues)]_vars

\* C22 (amended): every list request carries the Query State held when the
\* effect that issued it fired, and every step that changes the Query State
\* issues one unless it leaves a scoped view without a school; so the most
\* recently issued request carries the final Query State whenever a school
\* is selected or the view is not scoped.
C22_RequestsCarryStateWithSchool ==
  [][(view \in Views) =>
       /\ Issues => inflight'[Len(inflight')].req = Request(view, Cur')
       /\ ((Request(view, Cur') # Request(view, Cur) /\ EffectLoads(view, Cur'))
             => Issues)]_vars

\* Two actions were performed while the first fetch was out: two fetches are
\* in flight and the later carries the state the view holds.
C22_TwoRequestsLatestCurrent ==
  /\ view \in Views
  /\ nActions = 2
  /\ Len(inflight) = 2
  /\ inflight[1].req # inflight[2].req
  /\ inflight[2].req = Request(view, Cur)

\* C23: after a response with no records and totalPages = 1 the view shows
\* zero rows and offers no page change; a pagination control is activated
\* only while totalPages > 1, Previous only while hasPrevPage, Next only while
\* hasNextPage. (The click handlers keep every field of the metadata but
\* currentPage, so the flags after a click are those the button was rendered
\* with.)
C23_PaginationControls ==
  /\ (view \in Views /\ transactions.shown /\ transactions.rows = 0
        /\ pagination.totalPages = 1) =>
       ~PaginationShown /\ ~PreviousEnabled /\ ~NextEnabled
  /\ lastOp \in {"clickPrevious", "clickNext", "clickPage"} =>
       Gt(pagination.totalPages, 1)
  /\ lastOp = "clickPrevious" => pagination.hasPrevPage
  /\ lastOp = "clickNext" => pagination.hasNextPage

\* A view rests on an empty answer of one page: no rows, no pagination bar.
C23_EmptyPageNoControls ==
  /\ lastOp = "loadSucceeded"
  /\ transactions.rows = 0
  /\ pagination.totalPages = 1
  /\ ~pagination.hasNextPage /\ ~pagination.hasPrevPage
  /\ ~PaginationShown

\* C24: once the user has stopped and every answer echoes the page of its
\* request, the view comes to rest with no fetch in flight, for every order
\* in which the answers arrive.
C24_Quiescence == <>[](inflight = << >>)

\* C25: in a list view loading is true whenever a list fetch is in flight,
\* for any overlap of fetches.
C25_LoadingWhileInFlight ==
  (view \in Views /\ inflight # << >>) => loading

\* C26: a failed list fetch leaves the records displayed and the pagination
\* metadata as they were; the step that handles the failure changes only
\* loading, the notification and, in Dashboard, the error text.
C26_FailureFrame ==
  [][lastOp' = "loadFailed" =>
       /\ transactions' = transactions
       /\ pagination' = pagination
       /\ view # DashboardView => error' = error
       /\ UNCHANGED << searchParams, filters, sort, rowsPerPage, selectedSchoolId,
                       selectedStatus, selectedFilter, selectedDate >>]_vars

\* A fetch failed while rows of an earlier answer were displayed; they still
\* are.
C26_RowsKeptAfterFailure ==
  /\ lastOp = "loadFailed"
  /\ transactions.shown
  /\ transactions.rows > 0
  /\ ~loading

\* C27: on the Dashboard, once a load has completed successfully and no other
\* load is in flight, no error text is held, for any overlap of loads.
C27_ErrorClearedOnSuccess ==
  (/\ view = DashboardView
   /\ lastOp \in {"loadSucceeded", "staleLoadSucceeded"}
   /\ inflight = << >>) => error = Empty

\* C28: on the StatusCheck page at most one lookup is in flight, and with no
\* lookup in flight an error text and a displayed transaction never occur
\* together.
C28_OneLookupExclusiveResult ==
  view = StatusCheckView =>
    /\ Len(lookups) <= 1
    /\ lookups = << >> => ~(error # Empty /\ transaction.present)

\* A lookup is in flight while the record of an earlier one is displayed; the
\* button is disabled.
C28_LookupInFlightButtonDisabled ==
  /\ view = StatusCheckView
  /\ Len(lookups) = 1
  /\ loading
  /\ transaction.present
  /\ ~SubmitEnabled

\* C29: in the views with a status dropdown (Dashboard and the
\* URL-synchronised SchoolTransactions) the dropdown's value is empty exactly
\* when filters.status is empty.
C29_DropdownAgreesWithFilter ==
  view \in URLViews => (selectedStatus = Empty <=> filters.status = << >>)

\* The URL holds value under key, or lacks the key when value is the default.
Reflects(key, value, dflt) ==
  IF value = dflt THEN key \notin DOMAIN searchParams
  ELSE key \in DOMAIN searchParams /\ searchParams[key] = value

\* C30: in the URL-synchronised SchoolTransactions the URL a handler wrote
\* reflects the value that handler set: schoolId after handleSchoolChange,
\* limit after handleRowsPerPageChange, filterBy after handleFilterByChange,
\* dateFilter after handleDateFilterChange, statusFilter after
\* handleStatusFilterChange.
C30_URLReflectsHandler ==
  view = SchoolViewURL =>
    /\ lastOp = "handleSchoolChange" => Reflects("schoolId", selectedSchoolId, Empty)
    /\ lastOp = "handleRowsPerPageChange" =>
         Reflects("limit", NumberToString(rowsPerPage), NumberToString(DefaultPageSize))
    /\ lastOp = "handleFilterByChange" => Reflects("filterBy", selectedFilter, Empty)
    /\ lastOp = "handleDateFilterChange" => Reflects("dateFilter", selectedDate, Empty)
    /\ lastOp = "handleStatusFilterChange" =>
         Reflects("statusFilter", selectedStatus, Empty)

TypeOK ==
  /\ view \in Views \cup {StatusCheckView}
  /\ loading \in BOOLEAN
  /\ Len(inflight) <= MaxInflight
  /\ nActions \in 0..MaxActions

====
